---- MODULE Spec2Model ----
(***************************************************************************)
(* Model of the LSVM layering pipeline in its two variants:                *)
(*   gui.py  : process_video_layers (Gradio front end)                     *)
(*   LSVM.py : the module-level script                                     *)
(* A run overlays a label on the source (layer 0), then N times composes   *)
(* a 2x2 grid of the previous pre-label output, labels it (layer k), and   *)
(* finally concatenates the layers named by a manifest.                    *)
(*                                                                         *)
(* Numbers are Python integers of arbitrary precision: they are modelled   *)
(* as sequences of decimal digits, least significant digit first.  Texts   *)
(* are sequences of one-character strings, in reading order.               *)
(* Every external step (encoder, clip reader, subprocess) either succeeds  *)
(* or raises one of the exceptions the call can raise; a failed step       *)
(* writes no file.                                                         *)
(***************************************************************************)
EXTENDS Integers, Sequences, FiniteSets, TLC

\* Largest loop count explored (the GUI slider allows 0..100, settings.txt any integer).
MaxLoops == 22

\* gui.py: TEXT_THRESHOLD_FOR_SCIENTIFIC_NOTATION ; LSVM.py: the literal in "number2 <= 20"
TEXT_THRESHOLD_FOR_SCIENTIFIC_NOTATION == 20

\* Loop counts a run can be given; a negative count makes range() empty.
LoopCounts == (0 - 1)..MaxLoops

\* Largest loop count of the runs that share the working directories.
SharedLoops == 1

\* gui.py: positions of volume_input_slider (its default and its maximum), in hundredths
Volumes == {25, 100}

\* LSVM.py: volume = 0.5, in hundredths
volume == 50

\* Texts the user can type into the "Initial Text (for Layer 0)" box; "1" is the default.
InitialTexts == {<<"1">>, <<"0">>, <<"x", "1">>}

VARIABLES
    variant,                        \* "gui" or "lsvm": which program runs
    loop_count,                     \* num_compositing_loops (gui.py) / value (LSVM.py)
    volume_multiplier,              \* gui.py: volume_multiplier / LSVM.py: volume, in hundredths
    has_input,                      \* input_video_file is not None / file_paths is not empty
    use_dynaudnorm,                 \* gui.py parameter
    initial_text,                   \* gui.py parameter
    pc,                             \* position of the run
    i,                              \* loop variable of the compositing loop
    times,                          \* LSVM.py: times (0, then str of the stage number)
    number2,                        \* LSVM.py: number2
    number,                         \* LSVM.py: number (the label text)
    path_after,                     \* gui.py: path_after_compositing_and_norm
    output_layer_files_for_concat,  \* gui.py: list of layer paths
    file_list,                      \* the manifest file on disk
    files,                          \* media files on disk: path -> content
    calls,                          \* external steps attempted so far, in order
    status_messages,                \* gui.py: status_messages, the log returned with the result
    runs,                           \* several calls of process_video_layers: run -> its local variables
    writer,                         \* working-directory path -> the run that last wrote it
    access                          \* the file accesses of the step a run took last

vars == <<variant, loop_count, volume_multiplier, has_input, use_dynaudnorm, initial_text, pc, i,
          times, number2, number, path_after, output_layer_files_for_concat,
          file_list, files, calls, status_messages, runs, writer, access>>

(***************************************************************************)
(* Paths and file contents                                                 *)
(***************************************************************************)
Path(kind, k) == [kind |-> kind, k |-> k]

\* the uploaded file (gui.py) / file_paths[0] (LSVM.py)
SourcePath == Path("source", 0)
\* gui.py: input_temp/source_video.<ext>
base_input_video == Path("input_temp", 0)
\* mutant: the stage number is left out of the layer file name
LayerPathFixed(k) == Path("layer", 0)
\* output_temp/layer<k>.mp4 , output/layer<k>.mp4
LayerPath(k) == Path("layer", k)
\* output_temp/<k>.mp4 , output/<k>.mp4
StagePath(k) == Path("stage", k)
\* output_temp/<k>_tmp_dyn.mp4
TmpDynPath(k) == Path("tmp_dyn", k)
\* final_videos/<name>.mp4 , final_data/o.mp4
FinalPath == Path("final", 0)
\* output_temp/file_list_for_concat.txt , file_list.txt
ManifestPath == Path("manifest", 0)

\* What a media file holds: the texts burned into its frames (directly or
\* through the clip it was composed from), how many times it went through
\* the 2x2 compositor, whether its audio was normalized, and for the final
\* video the files it was joined from.
Media(labels, depth, norm, parts) ==
    [labels |-> labels, depth |-> depth, norm |-> norm, parts |-> parts,
     audio |-> <<>>, video_starts |-> <<>>]

SourceMedia == Media({}, 0, FALSE, <<>>)

\* one processing step of an audio stream: its kind and, for a mix, the
\* tracks mixed (start in milliseconds, gain factors in hundredths)
AudioOp(op, tracks) == [op |-> op, tracks |-> tracks]

\* the content c with the audio stream a
WithAudio(c, a) == [c EXCEPT !.audio = a]

Exists(p) == p \in DOMAIN files

\* open(path, "w") / encoder output with overwrite: create or replace
WriteFile(fs, p, c) == [q \in (DOMAIN fs) \cup {p} |-> IF q = p THEN c ELSE fs[q]]

\* mutant: nothing is removed
RemoveFileSkipped(fs, p) == fs

\* os.remove(path)
RemoveFile(fs, p) == [q \in (DOMAIN fs) \ {p} |-> fs[q]]

Call(op, stage, in, out, text, outcome) ==
    [op |-> op, stage |-> stage, in |-> in, out |-> out, text |-> text, outcome |-> outcome]

\* one entry of status_messages: what it reports and the stage it names
Msg(kind, stage) == [kind |-> kind, stage |-> stage]

(***************************************************************************)
(* Python integer arithmetic and text formatting                           *)
(***************************************************************************)
RECURSIVE MulCarry(_, _, _)
\* digits * m + carry, schoolbook, least significant digit first
MulCarry(d, m, carry) ==
    IF d = <<>>
    THEN IF carry = 0 THEN <<>> ELSE <<carry % 10>> \o MulCarry(<<>>, m, carry \div 10)
    ELSE LET p == Head(d) * m + carry
         IN  <<p % 10>> \o MulCarry(Tail(d), m, p \div 10)

RECURSIVE PowersOf4(_)
\* <<4**0, 4**1, ..., 4**n>>, each power got from the one before
PowersOf4(n) ==
    IF n = 0 THEN <<(<<1>>)>>
    ELSE LET prev == PowersOf4(n - 1)
         IN  Append(prev, MulCarry(prev[Len(prev)], 4, 0))

\* the powers a run of at most MaxLoops passes can ask for
Pow4Table == PowersOf4(MaxLoops + 3)

\* 4**n for n >= 0, exact
Pow4(n) == Pow4Table[n + 1]

DigitChar(d) == <<"0", "1", "2", "3", "4", "5", "6", "7", "8", "9">>[d + 1]

RECURSIVE GroupFrom(_, _)
\* digits from position pos upward, most significant first, a comma after
\* every digit whose position is a positive multiple of three
GroupFrom(d, pos) ==
    IF d = <<>> THEN <<>>
    ELSE GroupFrom(Tail(d), pos + 1) \o <<DigitChar(Head(d))>>
         \o (IF pos > 0 /\ pos % 3 = 0 THEN <<",">> ELSE <<>>)

\* f'{number:,}'
FormatGrouped(d) == GroupFrom(d, 0)

RECURSIVE IntText(_)
\* str(n) for a small n >= 0
IntText(n) == IF n < 10 THEN <<DigitChar(n)>> ELSE IntText(n \div 10) \o <<DigitChar(n % 10)>>

\* int(math.floor(math.log10(number))) for number >= 1
FloorLog10(d) == Len(d) - 1

RECURSIVE Zeros(_)
Zeros(n) == IF n <= 0 THEN <<>> ELSE <<0>> \o Zeros(n - 1)

\* mutant: the divisor is 10**(exp - 11), leaving twelve digits
MantissaIntShort(d, exp) == SubSeq(d, exp - 11 + 1, Len(d))

\* number // 10**(exp - 12): drops the exp-12 low digits.  (With exp < 12
\* Python divides by a float power; the quotient is number * 10**(12-exp).)
MantissaInt(d, exp) ==
    IF exp >= 12 THEN SubSeq(d, exp - 12 + 1, Len(d)) ELSE Zeros(12 - exp) \o d

RECURSIVE DigitsText(_)
\* the digits, most significant first, as characters
DigitsText(d) == IF d = <<>> THEN <<>> ELSE DigitsText(Tail(d)) \o <<DigitChar(Head(d))>>

\* f'{mantissa_int / 10**12:.12f}': the integer part, a point, twelve fractional digits
FormatMantissa(m) ==
    LET t == DigitsText(m)
    IN  SubSeq(t, 1, Len(t) - 12) \o <<".">> \o SubSeq(t, Len(t) - 11, Len(t))

\* f'{mantissa:.12f}e+{exp}'
FormatScientific(d) ==
    LET exp == FloorLog10(d)
    IN  FormatMantissa(MantissaInt(d, exp)) \o <<"e", "+">> \o IntText(exp)

\* number.replace(",", "")
RECURSIVE StripCommas(_)
StripCommas(t) ==
    IF t = <<>> THEN <<>>
    ELSE (IF Head(t) = "," THEN <<>> ELSE <<Head(t)>>) \o StripCommas(Tail(t))

(***************************************************************************)
(* gui.py : the label of stage k                                           *)
(***************************************************************************)
\* mutant: the exponent is the loop index i instead of i + 1
text_exponent_from_loop_index(current_stage_number) == current_stage_number - 1

\* text_exponent_for_this_layer = current_stage_number
text_exponent_for_this_layer(current_stage_number) == current_stage_number

\* mutant: the threshold test is strict, so stage 20 is already scientific
text_to_show_on_layer_strict(current_stage_number) ==
    LET e == text_exponent_for_this_layer(current_stage_number)
    IN  IF e < TEXT_THRESHOLD_FOR_SCIENTIFIC_NOTATION
        THEN FormatGrouped(Pow4(e))
        ELSE FormatScientific(Pow4(e))

text_to_show_on_layer(current_stage_number) ==
    LET e == text_exponent_for_this_layer(current_stage_number)
        number_for_text == Pow4(e)
    IN  IF e <= TEXT_THRESHOLD_FOR_SCIENTIFIC_NOTATION
        THEN FormatGrouped(number_for_text)
        ELSE FormatScientific(number_for_text)

(***************************************************************************)
(* Initial state: a run is about to start in fresh working directories.    *)
(***************************************************************************)
Init ==
    /\ variant \in {"gui", "lsvm"}
    /\ loop_count \in LoopCounts
    /\ volume_multiplier \in (IF variant = "gui" THEN Volumes ELSE {volume})
    /\ has_input \in BOOLEAN
    /\ use_dynaudnorm \in (IF variant = "gui" THEN BOOLEAN ELSE {FALSE})
    /\ initial_text \in (IF variant = "gui" THEN InitialTexts ELSE {<<"1">>})
    /\ pc = "start"
    /\ i = 0
    /\ times = 0
    /\ number2 = times + 1
    /\ number = <<>>
    /\ path_after = SourcePath
    /\ output_layer_files_for_concat = <<>>
    /\ file_list = [exists |-> FALSE, entries |-> <<>>]
    /\ files = [p \in (IF has_input THEN {SourcePath} ELSE {}) |-> SourceMedia]
    /\ calls = <<>>
    /\ status_messages = <<>>
    /\ runs = [r \in {} |-> 0]
    /\ writer = [p \in {} |-> 0]
    /\ access = {}

(***************************************************************************)
(* What the external steps do to a clip                                    *)
(***************************************************************************)
\* mutant: the drawtext pass of a stage re-encodes the audio as layer 0 does
OverlayReencoded(c, text) ==
    [Media(c.labels \cup {text}, c.depth, c.norm, <<>>)
        EXCEPT !.audio = Append(c.audio, AudioOp("aac", <<>>)), !.video_starts = c.video_starts]

\* ffmpeg drawtext pass of a stage k >= 1: vf = scale + drawtext, c:a copy
Overlay(c, text) ==
    [Media(c.labels \cup {text}, c.depth, c.norm, <<>>)
        EXCEPT !.audio = c.audio, !.video_starts = c.video_starts]

\* ffmpeg drawtext pass of layer 0: the same filter, acodec = aac, ar = 44100
OverlayLayer0(c, text) ==
    WithAudio(Overlay(c, text), Append(c.audio, AudioOp("aac", <<>>)))

\* delays of the second, third and fourth copy, in milliseconds
VIDEO_AUDIO_DELAY_2 == 30
VIDEO_AUDIO_DELAY_3 == 60
VIDEO_AUDIO_DELAY_4 == 90

\* moviepy VideoFileClip(path): video track and audio track both start at 0
VideoFileClip == [start |-> 0, audio |-> [start |-> 0, gain |-> <<>>]]

\* clip.audio.volumex(factor)
volumex(a, factor) == [a EXCEPT !.gain = Append(@, factor)]

\* clip.set_audio(a)
set_audio(clip, a) == [clip EXCEPT !.audio = a]

\* mutant: the start of an audio track is moved by t from where it was
audio_set_start_relative(a, t) == [a EXCEPT !.start = @ + t]

\* clip.audio.set_start(t): the track starts at t
audio_set_start(a, t) == [a EXCEPT !.start = t]

\* clip.set_start(t): the clip starts at t, and so does the audio attached to it
set_start(clip, t) == [clip EXCEPT !.start = t, !.audio = [@ EXCEPT !.start = t]]

\* the four clips and the four audio tracks of one compositor invocation
CompositeClips(v) ==
    LET loaded == set_audio(VideoFileClip, volumex(VideoFileClip.audio, v))
        clip1  == loaded
        clip2  == set_start(loaded, VIDEO_AUDIO_DELAY_2)
        clip3  == set_start(loaded, VIDEO_AUDIO_DELAY_3)
        clip4  == set_start(loaded, VIDEO_AUDIO_DELAY_4)
        audio1 == clip1.audio
        audio2 == audio_set_start(clip2.audio, VIDEO_AUDIO_DELAY_2)
        audio3 == audio_set_start(clip3.audio, VIDEO_AUDIO_DELAY_3)
        audio4 == audio_set_start(clip4.audio, VIDEO_AUDIO_DELAY_4)
    IN  [video_starts |-> <<clip1.start, clip2.start, clip3.start, clip4.start>>,
         tracks |-> <<audio1, audio2, audio3, audio4>>]

\* moviepy clips_array of four copies of the input + CompositeAudioClip + write_videofile
Composite(c, v) ==
    [Media(c.labels, c.depth + 1, FALSE, <<>>)
        EXCEPT !.audio = Append(c.audio, AudioOp("mix", CompositeClips(v).tracks)),
               !.video_starts = CompositeClips(v).video_starts]

\* ffmpeg -af dynaudnorm -c:v copy -c:a aac
Normalize(c) ==
    [Media(c.labels, c.depth, TRUE, <<>>)
        EXCEPT !.audio = Append(c.audio, AudioOp("dynaudnorm", <<>>)),
               !.video_starts = c.video_starts]

RECURSIVE AllExist(_, _)
\* every path of the list names a file of fs
AllExist(fs, ps) ==
    IF ps = <<>> THEN TRUE ELSE Head(ps) \in DOMAIN fs /\ AllExist(fs, Tail(ps))

\* ffmpeg -f concat -i <manifest>: joins the listed files in list order
Concat(entries) == Media({}, 0, FALSE, entries)

\* mutant: the loop makes one pass too many
InRangeInclusive(n, count) == n <= count

\* "for i in range(count)": the pass with index n is made
InRange(n, count) == n < count

(***************************************************************************)
(* gui.py : process_video_layers                                           *)
(***************************************************************************)
\* input check and copy of the upload to input_temp
GuiStart(outcome) ==
    /\ variant = "gui" /\ pc = "start"
    /\ IF ~has_input
       THEN /\ outcome = "ok"
            /\ pc' = "failed"
            /\ status_messages' = <<Msg("no_input", 0)>>
            /\ UNCHANGED <<files, calls>>
       ELSE /\ calls' = Append(calls, Call("copy", 0, SourcePath, base_input_video, <<>>, outcome))
            /\ IF outcome = "ok"
               THEN /\ files' = WriteFile(files, base_input_video, files[SourcePath])
                    /\ status_messages' = status_messages \o <<Msg("copied", 0), Msg("codec", 0)>>
                    /\ pc' = "layer0"
               ELSE /\ pc' = "raised"
                    /\ UNCHANGED <<files, status_messages>>
    /\ UNCHANGED <<runs, writer, access, variant, loop_count, volume_multiplier, has_input, use_dynaudnorm, initial_text, i, times,
                   number2, number, path_after, output_layer_files_for_concat, file_list>>

\* mutant: layer 0 ignores the initial_text parameter
GuiLayer0TextFixed == <<"1">>

\* the text of layer 0
GuiLayer0Text == initial_text

\* mutant: the handler logs the error and goes on with the loop
GuiOverlayFailureContinue(outcome) == "loop"

\* "except ffmpeg.Error: ... return None"; any other exception leaves the function
GuiOverlayFailure(outcome) == IF outcome = "ffmpeg_error" THEN "failed" ELSE "raised"

\* "except Exception: ... return None" around compositing and normalization
GuiCompositeFailure == "failed"

\* what the overlay step of a stage appends after the attempt: the success
\* line, the error line of "except ffmpeg.Error", or nothing when another
\* exception leaves the function
GuiOverlayReport(stage, outcome) ==
    IF outcome = "ok" THEN <<Msg("created_layer", stage)>>
    ELSE IF outcome = "ffmpeg_error" THEN <<Msg("error_layer", stage)>>
    ELSE <<>>

\* mutant: the newest layer is put at the head of the list
GuiAppendLayerFirst(list, path) == <<path>> \o list

\* output_layer_files_for_concat.append(path), after the encode returned
GuiAppendLayer(list, path) == Append(list, path)

\* layer 0: the source with the initial text; always attempted
GuiLayer0(outcome) ==
    /\ variant = "gui" /\ pc = "layer0"
    /\ calls' = Append(calls, Call("overlay", 0, base_input_video, LayerPath(0), GuiLayer0Text, outcome))
    /\ IF outcome = "ok"
       THEN /\ files' = WriteFile(files, LayerPath(0), OverlayLayer0(files[base_input_video], GuiLayer0Text))
            /\ output_layer_files_for_concat' = GuiAppendLayer(output_layer_files_for_concat, LayerPath(0))
            /\ pc' = "loop"
       ELSE /\ pc' = GuiOverlayFailure(outcome)
            /\ UNCHANGED <<files, output_layer_files_for_concat>>
    /\ status_messages' = status_messages \o <<Msg("creating_layer", 0)>>
                              \o GuiOverlayReport(0, outcome)
    /\ UNCHANGED <<runs, writer, access, variant, loop_count, volume_multiplier, has_input, use_dynaudnorm, initial_text, i, times,
                   number2, number, path_after, file_list>>

\* mutant: later passes compose the labeled layer of the previous stage
GuiCompositorInputLabeled(n) == IF n = 0 THEN base_input_video ELSE LayerPath(n)

\* video_path_for_moviepy_compositing
GuiCompositorInput(n) == IF n = 0 THEN base_input_video ELSE StagePath(n)

\* mutant: the raw composite is written to <stage>.mp4 even when normalization is on
GuiCompositorOutputDirect(stage) == StagePath(stage)

\* output_path_for_moviepy
GuiCompositorOutput(stage) == IF use_dynaudnorm THEN TmpDynPath(stage) ELSE StagePath(stage)

\* one pass of the loop up to write_videofile
GuiComposite(outcome) ==
    /\ variant = "gui" /\ pc = "loop" /\ InRange(i, loop_count)
    /\ LET stage == i + 1
           in    == GuiCompositorInput(i)
           out   == GuiCompositorOutput(stage)
       IN  /\ (outcome = "ok") => Exists(in)
           /\ calls' = Append(calls, Call("composite", stage, in, out, <<>>, outcome))
           /\ IF outcome = "ok"
              THEN /\ files' = WriteFile(files, out, Composite(files[in], volume_multiplier))
                   /\ path_after' = StagePath(stage)
                   /\ pc' = IF use_dynaudnorm THEN "dynaudnorm" ELSE "overlay"
              ELSE /\ pc' = GuiCompositeFailure
                   /\ UNCHANGED <<files, path_after>>
           /\ status_messages' = status_messages
                  \o <<Msg("starting_loop", stage), Msg("compositing_from", stage)>>
                  \o (IF Exists(in) THEN <<Msg("writing_composite", stage)>> ELSE <<>>)
                  \o (IF outcome # "ok" THEN <<Msg("error_stage", stage)>>
                      ELSE IF use_dynaudnorm THEN <<>>
                      ELSE <<Msg("created_stage", stage)>>)
    /\ UNCHANGED <<runs, writer, access, variant, loop_count, volume_multiplier, has_input, use_dynaudnorm, initial_text, i, times,
                   number2, number, output_layer_files_for_concat, file_list>>

\* mutant: a failed normalization is skipped and the stage goes on
GuiDynaudnormFailureSkipped == "overlay"

\* subprocess.run(..., check=True) raised inside the same try block
GuiDynaudnormFailure == GuiCompositeFailure

\* optional dynaudnorm pass: tmp -> <stage>.mp4, then the tmp is removed
GuiDynaudnorm(outcome) ==
    /\ variant = "gui" /\ pc = "dynaudnorm"
    /\ LET stage == i + 1
           in    == TmpDynPath(stage)
           out   == StagePath(stage)
       IN  /\ (outcome = "ok") => Exists(in)
           /\ calls' = Append(calls, Call("dynaudnorm", stage, in, out, <<>>, outcome))
           /\ status_messages' = status_messages \o <<Msg("applying_dynaudnorm", stage)>>
                  \o (IF outcome = "ok" THEN <<Msg("created_stage", stage)>>
                      ELSE <<Msg("error_stage", stage)>>)
           /\ IF outcome = "ok"
              THEN /\ files' = RemoveFile(WriteFile(files, out, Normalize(files[in])), in)
                   /\ pc' = "overlay"
              ELSE /\ pc' = GuiDynaudnormFailure
                   /\ UNCHANGED files
    /\ UNCHANGED <<runs, writer, access, variant, loop_count, volume_multiplier, has_input, use_dynaudnorm, initial_text, i, times,
                   number2, number, path_after, output_layer_files_for_concat, file_list>>

\* label of the stage, drawtext pass, append to the list
GuiOverlay(outcome) ==
    /\ variant = "gui" /\ pc = "overlay"
    /\ LET stage == i + 1
           text  == text_to_show_on_layer(stage)
           in    == path_after
           out   == LayerPath(stage)
       IN  /\ (outcome = "ok") => Exists(in)
           /\ calls' = Append(calls, Call("overlay", stage, in, out, text, outcome))
           /\ IF outcome = "ok"
              THEN /\ files' = WriteFile(files, out, Overlay(files[in], text))
                   /\ output_layer_files_for_concat' = GuiAppendLayer(output_layer_files_for_concat, out)
                   /\ i' = i + 1
                   /\ pc' = "loop"
              ELSE /\ pc' = GuiOverlayFailure(outcome)
                   /\ UNCHANGED <<files, output_layer_files_for_concat, i>>
           /\ status_messages' = status_messages \o <<Msg("adding_text", stage)>>
                                     \o GuiOverlayReport(stage, outcome)
    /\ UNCHANGED <<runs, writer, access, variant, loop_count, volume_multiplier, has_input, use_dynaudnorm, initial_text, times,
                   number2, number, path_after, file_list>>

\* after the loop: the list is written to the manifest file
GuiManifest ==
    /\ variant = "gui" /\ pc = "loop" /\ ~InRange(i, loop_count)
    /\ IF output_layer_files_for_concat = <<>>
       THEN /\ pc' = "failed"
            /\ status_messages' = Append(status_messages, Msg("no_layers", i))
            /\ UNCHANGED file_list
       ELSE /\ file_list' = [exists |-> TRUE, entries |-> output_layer_files_for_concat]
            /\ status_messages' = Append(status_messages, Msg("concatenating", i))
            /\ pc' = "concat"
    /\ UNCHANGED <<runs, writer, access, variant, loop_count, volume_multiplier, has_input, use_dynaudnorm, initial_text, i, times,
                   number2, number, path_after, output_layer_files_for_concat, files, calls>>

\* mutant: a failed concatenation is attempted again
GuiConcatFailureRetry(outcome) == "concat"

\* "except subprocess.CalledProcessError: ... return None"; any other exception
\* leaves the function
GuiConcatFailure(outcome) == IF outcome = "called_process_error" THEN "failed" ELSE "raised"

\* final concatenation (check=True) and clean-up
GuiConcat(outcome) ==
    /\ variant = "gui" /\ pc = "concat"
    /\ (outcome = "ok") => AllExist(files, file_list.entries)
    /\ calls' = Append(calls, Call("concat", i, ManifestPath, FinalPath, <<>>, outcome))
    /\ IF outcome = "ok"
       THEN /\ files' = RemoveFile(WriteFile(files, FinalPath, Concat(file_list.entries)),
                                   base_input_video)
            /\ file_list' = [exists |-> FALSE, entries |-> <<>>]
            /\ pc' = "done"
       ELSE /\ pc' = GuiConcatFailure(outcome)
            /\ UNCHANGED <<files, file_list>>
    /\ status_messages' = status_messages \o
          (IF outcome = "ok" THEN <<Msg("created_final", i), Msg("complete", i)>>
           ELSE IF outcome = "called_process_error" THEN <<Msg("error_concat", i)>>
           ELSE <<>>)
    /\ UNCHANGED <<runs, writer, access, variant, loop_count, volume_multiplier, has_input, use_dynaudnorm, initial_text, i, times,
                   number2, number, path_after, output_layer_files_for_concat>>

GuiNext ==
    \/ \E o \in {"ok", "other_error"} : GuiStart(o)
    \/ \E o \in {"ok", "ffmpeg_error", "other_error"} : GuiLayer0(o)
    \/ \E o \in {"ok", "error"} : GuiComposite(o)
    \/ \E o \in {"ok", "error"} : GuiDynaudnorm(o)
    \/ \E o \in {"ok", "ffmpeg_error", "other_error"} : GuiOverlay(o)
    \/ GuiManifest
    \/ \E o \in {"ok", "called_process_error", "other_error"} : GuiConcat(o)

(***************************************************************************)
(* LSVM.py : the script                                                    *)
(***************************************************************************)
\* the text of layer 0 (the literal text='1' of the stage-0 filter)
LsvmLayer0Text == <<"1">>

\* the exponent of the label computed when number2 = n2
LsvmLabelExponent(n2) ==
    IF n2 <= TEXT_THRESHOLD_FOR_SCIENTIFIC_NOTATION THEN n2 ELSE n2 + 1

\* "number" after the label block, entered with number2 = n2.
\* In the else branch number2 is incremented before 4**number2 is taken; the
\* int(number.replace(",", "")) of number2 == 21 is overwritten at once and
\* leaves no trace in the result.
LsvmNumber(n2) ==
    IF n2 <= TEXT_THRESHOLD_FOR_SCIENTIFIC_NOTATION
    THEN FormatGrouped(Pow4(n2))
    ELSE FormatScientific(Pow4(LsvmLabelExponent(n2)))

\* what the script does when a step raises FileNotFoundError: print "error", break
LsvmOnFileNotFound == "broke"

\* where a step's exception leads: FileNotFoundError is caught, anything else is not
LsvmAfterFailure(outcome) ==
    IF outcome = "file_not_found" THEN LsvmOnFileNotFound ELSE "raised"

\* glob of input/*, settings.txt read
LsvmStart ==
    /\ variant = "lsvm" /\ pc = "start"
    /\ pc' = "loop"
    /\ UNCHANGED <<runs, writer, access, status_messages, variant, loop_count, volume_multiplier,
                   has_input, use_dynaudnorm, initial_text, i, times,
                   number2, number, path_after, output_layer_files_for_concat, file_list,
                   files, calls>>

\* first pass only (str(times) == "0"): the source with the text 1
LsvmLayer0(outcome) ==
    /\ variant = "lsvm" /\ pc = "loop" /\ InRange(i, loop_count) /\ times = 0
    /\ IF ~has_input
       THEN /\ outcome = "other_error"
            /\ pc' = "raised"
            /\ UNCHANGED <<files, calls>>
       ELSE /\ calls' = Append(calls, Call("overlay", 0, SourcePath, LayerPath(0), LsvmLayer0Text, outcome))
            /\ IF outcome = "ok"
               THEN /\ files' = WriteFile(files, LayerPath(0), OverlayLayer0(files[SourcePath], LsvmLayer0Text))
                    /\ pc' = "composite"
               ELSE /\ pc' = LsvmAfterFailure(outcome)
                    /\ UNCHANGED files
    /\ UNCHANGED <<runs, writer, access, status_messages, variant, loop_count, volume_multiplier,
                   has_input, use_dynaudnorm, initial_text, i, times,
                   number2, number, path_after, output_layer_files_for_concat, file_list>>

\* the file the four clips are opened from
LsvmCompositorInput(t) == IF t = 0 THEN SourcePath ELSE StagePath(t)

\* the four clips, the grid, write_videofile to output/<times+1>.mp4
LsvmComposite(outcome) ==
    /\ variant = "lsvm"
    /\ \/ pc = "composite"
       \/ pc = "loop" /\ InRange(i, loop_count) /\ times # 0
    /\ LET in  == LsvmCompositorInput(times)
           out == StagePath(times + 1)
       IN  /\ (outcome = "ok") => Exists(in)
           /\ calls' = Append(calls, Call("composite", times + 1, in, out, <<>>, outcome))
           /\ IF outcome = "ok"
              THEN /\ files' = WriteFile(files, out, Composite(files[in], volume_multiplier))
                   /\ pc' = "overlay"
              ELSE /\ pc' = LsvmAfterFailure(outcome)
                   /\ UNCHANGED files
    /\ UNCHANGED <<runs, writer, access, status_messages, variant, loop_count, volume_multiplier,
                   has_input, use_dynaudnorm, initial_text, i, times,
                   number2, number, path_after, output_layer_files_for_concat, file_list>>

\* label block, times = str(int(times) + 1), drawtext pass on output/<times>.mp4
LsvmOverlay(outcome) ==
    /\ variant = "lsvm" /\ pc = "overlay"
    /\ number' = LsvmNumber(number2)
    /\ number2' = number2 + 1
    /\ times' = times + 1
    /\ LET in  == StagePath(times')
           out == LayerPath(times')
       IN  /\ (outcome = "ok") => Exists(in)
           /\ calls' = Append(calls, Call("overlay", times', in, out, number', outcome))
           /\ IF outcome = "ok"
              THEN /\ files' = WriteFile(files, out, Overlay(files[in], number'))
                   /\ i' = i + 1
                   /\ pc' = "loop"
              ELSE /\ pc' = LsvmAfterFailure(outcome)
                   /\ UNCHANGED <<files, i>>
    /\ UNCHANGED <<runs, writer, access, status_messages, variant, loop_count, volume_multiplier,
                   has_input, use_dynaudnorm, initial_text,
                   path_after, output_layer_files_for_concat, file_list>>

RECURSIVE LayerRange(_)
\* layer0 .. layer<n-1>, the lines written for range(n)
LayerRange(n) == IF n <= 0 THEN <<>> ELSE Append(LayerRange(n - 1), LayerPath(n - 1))

\* mutant: the manifest is written for range(value) instead of range(value + 1)
LsvmManifestEntriesShort == LayerRange(loop_count)

\* the lines of file_list.txt
LsvmManifestEntries == LayerRange(loop_count + 1)

\* after the loop, however it ended: file_list.txt is written
LsvmManifest ==
    /\ variant = "lsvm"
    /\ \/ pc = "broke"
       \/ pc = "loop" /\ ~InRange(i, loop_count)
    /\ file_list' = [exists |-> TRUE, entries |-> LsvmManifestEntries]
    /\ pc' = "concat"
    /\ UNCHANGED <<runs, writer, access, status_messages, variant, loop_count, volume_multiplier,
                   has_input, use_dynaudnorm, initial_text, i, times,
                   number2, number, path_after, output_layer_files_for_concat, files, calls>>

\* subprocess.run(command) without check, then print done
LsvmConcat(outcome) ==
    /\ variant = "lsvm" /\ pc = "concat"
    /\ (outcome = "ok") => (file_list.entries # <<>> /\ AllExist(files, file_list.entries))
    /\ calls' = Append(calls, Call("concat", times, ManifestPath, FinalPath, <<>>, outcome))
    /\ IF outcome = "ok"
       THEN files' = WriteFile(files, FinalPath, Concat(file_list.entries))
       ELSE UNCHANGED files
    /\ pc' = IF outcome = "file_not_found" THEN "raised" ELSE "done"
    /\ UNCHANGED <<runs, writer, access, status_messages, variant, loop_count, volume_multiplier,
                   has_input, use_dynaudnorm, initial_text, i, times,
                   number2, number, path_after, output_layer_files_for_concat, file_list>>

LsvmNext ==
    \/ LsvmStart
    \/ \E o \in {"ok", "file_not_found", "other_error"} : LsvmLayer0(o)
    \/ \E o \in {"ok", "file_not_found", "other_error"} : LsvmComposite(o)
    \/ \E o \in {"ok", "file_not_found", "other_error"} : LsvmOverlay(o)
    \/ LsvmManifest
    \/ \E o \in {"ok", "nonzero_exit", "file_not_found"} : LsvmConcat(o)

Next == GuiNext \/ LsvmNext

Spec == Init /\ [][Next]_vars

(***************************************************************************)
(* gui.py : several calls of process_video_layers in one server process.   *)
(* ensure_dirs names the same three directories for every call, and the    *)
(* file names inside them depend only on the stage number (and, for the    *)
(* source copy, on the extension of the upload).  Each call has its own    *)
(* local variables; the directories are shared.                           *)
(***************************************************************************)
RunIds == {1, 2}

\* extensions of the uploads, by index
Extensions == {0, 1}

\* the variables of the single-run specification
single == <<variant, loop_count, volume_multiplier, has_input, use_dynaudnorm, initial_text, pc, i, times,
            number2, number, path_after, output_layer_files_for_concat, calls,
            status_messages>>

\* the upload of run r, in Gradio's own temporary space
UploadPath(r) == Path("source", r)

\* base_input_video of run r: "source_video" + extension of the upload
RunBaseInput(r) == Path("input_temp", runs[r].ext)

\* one access of a step: the path, what is done to it, and the run that
\* last wrote the file found there (0: nobody, the file does not exist)
Acc(r, mode, p) ==
    [run |-> r, mode |-> mode, path |-> p,
     owner |-> IF p \in DOMAIN writer THEN writer[p] ELSE 0]

\* the accesses to the files a step reads, the missing ones left out
ReadAccs(r, ps) == {Acc(r, "read", p) : p \in {q \in ps : q \in DOMAIN writer}}

SetWriter(w, p, r) == [q \in (DOMAIN w) \cup {p} |-> IF q = p THEN r ELSE w[q]]

DropWriter(w, p) == [q \in (DOMAIN w) \ {p} |-> w[q]]

RECURSIVE SeqToSet(_)
SeqToSet(ps) == IF ps = <<>> THEN {} ELSE {Head(ps)} \cup SeqToSet(Tail(ps))

InitShared ==
    /\ variant = "gui"
    /\ loop_count = 0
    /\ volume_multiplier \in {25}
    /\ has_input = TRUE
    /\ use_dynaudnorm = FALSE
    /\ initial_text = <<"1">>
    /\ pc = "shared"
    /\ i = 0
    /\ times = 0
    /\ number2 = times + 1
    /\ number = <<>>
    /\ path_after = SourcePath
    /\ output_layer_files_for_concat = <<>>
    /\ calls = <<>>
    /\ status_messages = <<>>
    /\ file_list = [exists |-> FALSE, entries |-> <<>>]
    /\ files = [p \in {UploadPath(r) : r \in RunIds} |-> SourceMedia]
    /\ writer = [p \in {} |-> 0]
    /\ access = {}
    /\ runs \in [RunIds -> [pc : {"start"}, i : {0}, loop_count : 0..SharedLoops,
                            use_dynaudnorm : BOOLEAN, initial_text : {<<"1">>, <<"0">>},
                            ext : Extensions, path_after : {SourcePath},
                            list : {<<>>}]]

\* copy of the upload to input_temp
RunStart(r) ==
    /\ runs[r].pc = "start"
    /\ files' = WriteFile(files, RunBaseInput(r), files[UploadPath(r)])
    /\ writer' = SetWriter(writer, RunBaseInput(r), r)
    /\ access' = {Acc(r, "write", RunBaseInput(r))}
    /\ runs' = [runs EXCEPT ![r].pc = "layer0"]
    /\ UNCHANGED <<single, file_list>>

\* layer 0
RunLayer0(r, outcome) ==
    /\ runs[r].pc = "layer0"
    /\ (outcome = "ok") => Exists(RunBaseInput(r))
    /\ access' = ReadAccs(r, {RunBaseInput(r)})
                    \cup (IF outcome = "ok" THEN {Acc(r, "write", LayerPath(0))} ELSE {})
    /\ IF outcome = "ok"
       THEN /\ files' = WriteFile(files, LayerPath(0),
                                  OverlayLayer0(files[RunBaseInput(r)], runs[r].initial_text))
            /\ writer' = SetWriter(writer, LayerPath(0), r)
            /\ runs' = [runs EXCEPT ![r].pc = "loop",
                                    ![r].list = Append(@, LayerPath(0))]
       ELSE /\ runs' = [runs EXCEPT ![r].pc = "failed"]
            /\ UNCHANGED <<files, writer>>
    /\ UNCHANGED <<single, file_list>>

\* video_path_for_moviepy_compositing of run r
RunCompositorInput(r) == IF runs[r].i = 0 THEN RunBaseInput(r) ELSE StagePath(runs[r].i)

\* clips, grid, write_videofile
RunComposite(r, outcome) ==
    /\ runs[r].pc = "loop" /\ InRange(runs[r].i, runs[r].loop_count)
    /\ LET stage == runs[r].i + 1
           in    == RunCompositorInput(r)
           out   == IF runs[r].use_dynaudnorm THEN TmpDynPath(stage) ELSE StagePath(stage)
       IN  /\ (outcome = "ok") => Exists(in)
           /\ access' = ReadAccs(r, {in})
                           \cup (IF outcome = "ok" THEN {Acc(r, "write", out)} ELSE {})
           /\ IF outcome = "ok"
              THEN /\ files' = WriteFile(files, out, Composite(files[in], volume_multiplier))
                   /\ writer' = SetWriter(writer, out, r)
                   /\ runs' = [runs EXCEPT
                                 ![r].pc = IF runs[r].use_dynaudnorm THEN "dynaudnorm" ELSE "overlay",
                                 ![r].path_after = StagePath(stage)]
              ELSE /\ runs' = [runs EXCEPT ![r].pc = "failed"]
                   /\ UNCHANGED <<files, writer>>
    /\ UNCHANGED <<single, file_list>>

\* dynaudnorm pass and removal of the temporary
RunDynaudnorm(r, outcome) ==
    /\ runs[r].pc = "dynaudnorm"
    /\ LET stage == runs[r].i + 1
           in    == TmpDynPath(stage)
           out   == StagePath(stage)
       IN  /\ (outcome = "ok") => Exists(in)
           /\ access' = ReadAccs(r, {in})
                           \cup (IF outcome = "ok"
                                 THEN {Acc(r, "write", out), Acc(r, "delete", in)} ELSE {})
           /\ IF outcome = "ok"
              THEN /\ files' = RemoveFile(WriteFile(files, out, Normalize(files[in])), in)
                   /\ writer' = DropWriter(SetWriter(writer, out, r), in)
                   /\ runs' = [runs EXCEPT ![r].pc = "overlay"]
              ELSE /\ runs' = [runs EXCEPT ![r].pc = "failed"]
                   /\ UNCHANGED <<files, writer>>
    /\ UNCHANGED <<single, file_list>>

\* label and drawtext pass of a stage
RunOverlay(r, outcome) ==
    /\ runs[r].pc = "overlay"
    /\ LET stage == runs[r].i + 1
           in    == runs[r].path_after
           out   == LayerPath(stage)
       IN  /\ (outcome = "ok") => Exists(in)
           /\ access' = ReadAccs(r, {in})
                           \cup (IF outcome = "ok" THEN {Acc(r, "write", out)} ELSE {})
           /\ IF outcome = "ok"
              THEN /\ files' = WriteFile(files, out, Overlay(files[in], text_to_show_on_layer(stage)))
                   /\ writer' = SetWriter(writer, out, r)
                   /\ runs' = [runs EXCEPT ![r].pc = "loop",
                                           ![r].i = @ + 1,
                                           ![r].list = Append(@, out)]
              ELSE /\ runs' = [runs EXCEPT ![r].pc = "failed"]
                   /\ UNCHANGED <<files, writer>>
    /\ UNCHANGED <<single, file_list>>

\* mutant: the manifest file is opened for appending
RunManifestEntriesAppended(r) == file_list.entries \o runs[r].list

\* open(concat_list_filepath, "w"): the file holds the list of this run only
RunManifestEntries(r) == runs[r].list

\* the list of the run is written to output_temp/file_list_for_concat.txt
RunManifest(r) ==
    /\ runs[r].pc = "loop" /\ ~InRange(runs[r].i, runs[r].loop_count)
    /\ IF runs[r].list = <<>>
       THEN /\ runs' = [runs EXCEPT ![r].pc = "failed"]
            /\ UNCHANGED <<file_list, writer, access>>
       ELSE /\ file_list' = [exists |-> TRUE, entries |-> RunManifestEntries(r)]
            /\ writer' = SetWriter(writer, ManifestPath, r)
            /\ access' = {Acc(r, "write", ManifestPath)}
            /\ runs' = [runs EXCEPT ![r].pc = "concat"]
    /\ UNCHANGED <<single, files>>

\* ffmpeg concat of what the manifest file lists, then the clean-up
RunConcat(r, outcome) ==
    /\ runs[r].pc = "concat"
    /\ (outcome = "ok") => (file_list.exists /\ AllExist(files, file_list.entries))
    /\ IF outcome = "ok"
       THEN /\ access' = ReadAccs(r, {ManifestPath} \cup SeqToSet(file_list.entries))
                           \cup {Acc(r, "write", FinalPath), Acc(r, "delete", ManifestPath)}
                           \cup (IF Exists(RunBaseInput(r))
                                 THEN {Acc(r, "delete", RunBaseInput(r))} ELSE {})
            /\ files' = RemoveFile(WriteFile(files, FinalPath, Concat(file_list.entries)),
                                   RunBaseInput(r))
            /\ writer' = DropWriter(DropWriter(SetWriter(writer, FinalPath, r), ManifestPath),
                                    RunBaseInput(r))
            /\ file_list' = [exists |-> FALSE, entries |-> <<>>]
            /\ runs' = [runs EXCEPT ![r].pc = "done"]
       ELSE /\ access' = ReadAccs(r, {ManifestPath} \cup SeqToSet(file_list.entries))
            /\ runs' = [runs EXCEPT ![r].pc = "failed"]
            /\ UNCHANGED <<files, writer, file_list>>
    /\ UNCHANGED single

\* one step of the call r
RunStep(r) ==
    \/ RunStart(r)
    \/ \E o \in {"ok", "error"} : RunLayer0(r, o)
    \/ \E o \in {"ok", "error"} : RunComposite(r, o)
    \/ \E o \in {"ok", "error"} : RunDynaudnorm(r, o)
    \/ \E o \in {"ok", "error"} : RunOverlay(r, o)
    \/ RunManifest(r)
    \/ \E o \in {"ok", "error"} : RunConcat(r, o)

NextShared == \E r \in RunIds : RunStep(r)

\* the calls run concurrently: their steps interleave in any order
SpecShared == InitShared /\ [][NextShared]_vars

\* the call r has returned
RunReturned(r) == runs[r].pc \in {"done", "failed"}

\* the calls are made one after another: a call starts when the ones before it returned
NextSequential == \E r \in RunIds : (\A q \in RunIds : q < r => RunReturned(q)) /\ RunStep(r)

SpecSequential == InitShared /\ [][NextSequential]_vars

\* The run is a single thread of blocking calls: as long as a step is
\* possible the program takes one.
FairSpec == Init /\ [][Next]_vars /\ WF_vars(Next)

(***************************************************************************)
(* Vocabulary of the properties                                            *)
(***************************************************************************)
CallIndices == 1..Len(calls)

\* the steps of stage k: overlay of layer 0 for k = 0, composite / normalize / overlay for k >= 1
IsStageStep(c) == c.op \in {"overlay", "composite", "dynaudnorm"}

FailedStageSteps == {j \in CallIndices : IsStageStep(calls[j]) /\ calls[j].outcome # "ok"}

ConcatInvoked == \E j \in CallIndices : calls[j].op = "concat"

\* indices of the layer artifacts on disk
LayersOnDisk == {p.k : p \in {q \in DOMAIN files : q.kind = "layer"}}

\* composites (raw or normalized) on disk
StageArtifacts == {q \in DOMAIN files : q.kind \in {"stage", "tmp_dyn", "layer"}}

\* the list is layer0, layer1, ..., layer<n> in this order
IsAscendingLayers(entries, n) ==
    /\ Len(entries) = n + 1
    /\ \A j \in 1..Len(entries) : entries[j] = [kind |-> "layer", k |-> j - 1]

(***************************************************************************)
(* C1  gui.py: when every external step has succeeded, exactly the layers  *)
(* layer0 .. layerN exist and the manifest handed to the concatenator has  *)
(* exactly N+1 entries (N >= 0).                                           *)
(***************************************************************************)
C1_GuiLayerCount ==
    (variant = "gui" /\ loop_count >= 0 /\ pc \in {"concat", "done"})
        => /\ LayersOnDisk = 0..loop_count
           /\ Cardinality(LayersOnDisk) = loop_count + 1
           /\ Len(output_layer_files_for_concat) = loop_count + 1
           /\ pc = "concat" => (file_list.exists /\ Len(file_list.entries) = loop_count + 1)
           /\ pc = "done" => Len(files[FinalPath].parts) = loop_count + 1

C1_Witness ==
    /\ variant = "gui" /\ loop_count = 3 /\ pc = "done"
    /\ LayersOnDisk = 0..3

(***************************************************************************)
(* C2  LSVM.py: for every N >= 0, when no step has failed and the          *)
(* concatenation step starts, layer0 .. layerN exist, so every manifest    *)
(* entry names a layer produced by the run.                                *)
(***************************************************************************)
C2_LsvmLayersBeforeConcat ==
    (variant = "lsvm" /\ loop_count >= 0 /\ has_input /\ pc = "concat" /\ FailedStageSteps = {})
        => /\ LayersOnDisk = 0..loop_count
           /\ AllExist(files, file_list.entries)

(***************************************************************************)
(* C3  Both variants: for N >= 0 the manifest given to the concatenator    *)
(* is layer0, layer1, ..., layerN in ascending order, without gap,         *)
(* duplicate or permutation; a final video is joined in that order.        *)
(***************************************************************************)
C3_ManifestAscending ==
    loop_count >= 0
        => /\ pc = "concat" => (file_list.exists /\ IsAscendingLayers(file_list.entries, loop_count))
           /\ FinalPath \in DOMAIN files => IsAscendingLayers(files[FinalPath].parts, loop_count)
           /\ \A j \in CallIndices : calls[j].op = "concat" => calls[j].in = ManifestPath

C3_Witness ==
    /\ variant = "lsvm" /\ loop_count = 3 /\ pc = "done"
    /\ FinalPath \in DOMAIN files
    /\ Len(files[FinalPath].parts) = 4

(***************************************************************************)
(* C4  gui.py: once a step of stage k has failed the run is Failed: the    *)
(* concatenation is never invoked, no manifest and no final video is       *)
(* written, and no composite or layer of a stage > k exists.               *)
(***************************************************************************)
C4_GuiFailureStops ==
    \A j \in FailedStageSteps :
        variant = "gui"
            => /\ pc \in {"failed", "raised"}
               /\ j = Len(calls)
               /\ ~ConcatInvoked
               /\ ~file_list.exists
               /\ FinalPath \notin DOMAIN files
               /\ \A q \in StageArtifacts : q.k <= calls[j].stage

C4_Witness ==
    /\ variant = "gui" /\ loop_count >= 3
    /\ \E j \in FailedStageSteps : calls[j].stage = 2 /\ calls[j].op = "overlay"
    /\ LayersOnDisk = {0, 1}

(***************************************************************************)
(* C5  LSVM.py: when a stage step fails, FileNotFoundError included, the   *)
(* run halts: the manifest is not written and the concatenation is not     *)
(* run on the layers completed so far.                                     *)
(***************************************************************************)
C5_LsvmFailureStops ==
    (variant = "lsvm" /\ FailedStageSteps # {})
        => /\ ~file_list.exists
           /\ ~ConcatInvoked

(***************************************************************************)
(* Reading a label back: the value a text denotes                          *)
(***************************************************************************)
IsScientific(t) == \E j \in 1..Len(t) : t[j] = "e"

\* a grouped decimal denotes v when its digits, commas removed, are those of v
DecimalDenotes(t, v) == StripCommas(t) = DigitsText(v)

\* d.dddddddddddde+x denotes v to 13 significant digits: x is the decimal
\* exponent of v and the 13 digits are the leading digits of v
ScientificDenotes(t, v) ==
    /\ Len(v) >= 13
    /\ Len(t) >= 17
    /\ t[2] = "." /\ t[15] = "e" /\ t[16] = "+"
    /\ <<t[1]>> \o SubSeq(t, 3, 14) = SubSeq(DigitsText(v), 1, 13)
    /\ SubSeq(t, 17, Len(t)) = IntText(Len(v) - 1)

TextDenotes(t, v) == IF IsScientific(t) THEN ScientificDenotes(t, v) ELSE DecimalDenotes(t, v)

\* the layer file of stage k carries exactly one label, and it denotes 4^k
LayerDenotesPow4(k) ==
    LET ls == files[LayerPath(k)].labels
    IN  /\ Cardinality(ls) = 1
        /\ \A t \in ls : TextDenotes(t, Pow4(k))

(***************************************************************************)
(* C6  Both variants: the compositor of stage 1 reads the original source  *)
(* (gui.py: its copy in input_temp), the compositor of stage k >= 2 reads  *)
(* the pre-label output k-1.mp4; a layer file is never a compositor input  *)
(* and no pre-label artifact carries a label.                              *)
(***************************************************************************)
C6_CompositorInput ==
    /\ \A j \in CallIndices :
          calls[j].op = "composite"
              => /\ calls[j].stage >= 1
                 /\ calls[j].stage = 1 =>
                        calls[j].in = (IF variant = "gui" THEN base_input_video ELSE SourcePath)
                 /\ calls[j].stage >= 2 => calls[j].in = StagePath(calls[j].stage - 1)
                 /\ calls[j].in.kind # "layer"
    /\ \A q \in DOMAIN files :
          /\ q.kind \in {"stage", "tmp_dyn", "input_temp", "source"} => files[q].labels = {}
          /\ q.kind = "stage" => files[q].depth = q.k
          /\ q.kind = "layer" => Cardinality(files[q].labels) = 1

C6_Witness ==
    /\ \E j \in CallIndices :
          calls[j].op = "composite" /\ calls[j].stage = 3 /\ calls[j].outcome = "ok"
    /\ LayerPath(2) \in DOMAIN files
    /\ StagePath(3) \in DOMAIN files

(***************************************************************************)
(* C7  gui.py: for 1 <= k <= N the text burned into layer k denotes 4^k.   *)
(***************************************************************************)
C7_GuiLabelValue ==
    variant = "gui"
        => /\ \A k \in LayersOnDisk : k >= 1 => LayerDenotesPow4(k)
           /\ \A j \in CallIndices :
                 (calls[j].op = "overlay" /\ calls[j].stage >= 1)
                     => TextDenotes(calls[j].text, Pow4(calls[j].stage))

C7_Witness ==
    /\ variant = "gui"
    /\ {2, 20, 21} \subseteq LayersOnDisk
    /\ IsScientific(calls[Len(calls)].text)

(***************************************************************************)
(* C8  LSVM.py: for 1 <= k <= N, k > 20 included, the text burned into     *)
(* layer k denotes 4^k (so consecutive labels differ by a factor of 4).    *)
(***************************************************************************)
C8_LsvmLabelValue ==
    variant = "lsvm"
        => \A k \in LayersOnDisk : k >= 1 => LayerDenotesPow4(k)

(***************************************************************************)
(* C9  as stated: in both variants the text burned into layer 0 is "1"     *)
(* whatever the inputs of the run are.                                     *)
(***************************************************************************)
C9_Layer0IsOne ==
    0 \in LayersOnDisk => files[LayerPath(0)].labels = {<<"1">>}

(***************************************************************************)
(* C9  amended: in LSVM.py the text burned into layer 0 is always "1"; in  *)
(* gui.py it is the initial_text given to the run, so it is "1" exactly    *)
(* when initial_text is "1" (the default of the text box).                 *)
(***************************************************************************)
C9_Layer0Text ==
    0 \in LayersOnDisk
        => files[LayerPath(0)].labels = {IF variant = "lsvm" THEN <<"1">> ELSE initial_text}

C9_Witness ==
    /\ variant = "gui" /\ initial_text # <<"1">>
    /\ 0 \in LayersOnDisk

(***************************************************************************)
(* C10 gui.py: a failure of the normalization pass of stage k ends the run *)
(* as Failed: layer k is not created, no step of a later stage and no      *)
(* concatenation follows; and with normalization on, every layer k >= 1    *)
(* is made from a normalized composite, never from the raw temporary.      *)
(***************************************************************************)
C10_DynaudnormFailureStops ==
    variant = "gui"
        => /\ \A j \in CallIndices :
                 (calls[j].op = "dynaudnorm" /\ calls[j].outcome # "ok")
                     => /\ pc = "failed"
                        /\ j = Len(calls)
                        /\ calls[j].stage \notin LayersOnDisk
                        /\ ~ConcatInvoked
                        /\ ~file_list.exists
           /\ \A j \in CallIndices :
                 (calls[j].op = "overlay" /\ calls[j].stage >= 1)
                     => calls[j].in = StagePath(calls[j].stage)
           /\ use_dynaudnorm => \A k \in LayersOnDisk : k >= 1 => files[LayerPath(k)].norm

C10_Witness ==
    /\ variant = "gui" /\ use_dynaudnorm /\ loop_count >= 3
    /\ calls # <<>>
    /\ calls[Len(calls)].op = "dynaudnorm"
    /\ calls[Len(calls)].outcome # "ok"
    /\ calls[Len(calls)].stage = 2
    /\ TmpDynPath(2) \in DOMAIN files

(***************************************************************************)
(* C12 gui.py: process_video_layers returns the final path exactly when    *)
(* stage 0, every stage 1..N and the concatenation succeeded; when one of  *)
(* these steps fails it returns None with a log whose last entry names     *)
(* the failing stage (or the concatenation).                               *)
(***************************************************************************)
LastMessage == status_messages[Len(status_messages)]

C12_GuiReturn ==
    variant = "gui"
        => /\ pc = "done" <=> (\E j \in CallIndices : calls[j].op = "concat" /\ calls[j].outcome = "ok")
           /\ pc = "done" => \A j \in CallIndices : calls[j].outcome = "ok"
           /\ \A j \in CallIndices :
                 (calls[j].op # "copy" /\ calls[j].outcome # "ok")
                     => /\ pc = "failed"
                        /\ status_messages # <<>>
                        /\ IF calls[j].op = "concat"
                           THEN LastMessage.kind = "error_concat"
                           ELSE /\ LastMessage.kind \in {"error_layer", "error_stage"}
                                /\ LastMessage.stage = calls[j].stage

(***************************************************************************)
(* C13 Both variants: a run given N < 0 is rejected: it produces no layer  *)
(* artifact, does not invoke the concatenator and does not complete.       *)
(***************************************************************************)
C13_NegativeRejected ==
    loop_count < 0
        => /\ LayersOnDisk = {}
           /\ ~ConcatInvoked
           /\ pc # "done"

(***************************************************************************)
(* Shapes of a label                                                       *)
(***************************************************************************)
Digits == {"0", "1", "2", "3", "4", "5", "6", "7", "8", "9"}

\* digits with a comma before every group of three counted from the right
IsGroupedDecimal(t) ==
    /\ t # <<>>
    /\ t[1] \in Digits \ {"0"}
    /\ \A j \in 1..Len(t) :
          IF (Len(t) - j + 1) % 4 = 0 THEN t[j] = "," ELSE t[j] \in Digits

\* d.dddddddddddde+x
IsScientificShape(t) ==
    /\ Len(t) >= 17
    /\ t[1] \in Digits \ {"0"}
    /\ t[2] = "."
    /\ \A j \in 3..14 : t[j] \in Digits
    /\ t[15] = "e" /\ t[16] = "+"
    /\ t[17] \in Digits \ {"0"}
    /\ \A j \in 17..Len(t) : t[j] \in Digits

(***************************************************************************)
(* C14 Both variants: the label of stage k is a thousands-grouped decimal  *)
(* for 1 <= k <= 20 and in scientific notation (12 fractional digits,      *)
(* e+exponent) for k >= 21.                                                *)
(***************************************************************************)
C14_NotationSwitch ==
    \A j \in CallIndices :
        (calls[j].op = "overlay" /\ calls[j].stage >= 1)
            => IF calls[j].stage <= 20
               THEN IsGroupedDecimal(calls[j].text)
               ELSE IsScientificShape(calls[j].text)

C14_Witness ==
    /\ variant = "lsvm"
    /\ {20, 21} \subseteq LayersOnDisk
    /\ \E j \in CallIndices : calls[j].stage = 21 /\ IsScientificShape(calls[j].text)
    /\ \E j \in CallIndices : calls[j].stage = 20 /\ IsGroupedDecimal(calls[j].text)

(***************************************************************************)
(* C15 Both variants, stage k > 20, v the integer rendered and exponent =  *)
(* (number of digits of v) - 1: exponent - 12 >= 0, v // 10^(exponent-12)  *)
(* has 13 digits (lies in [10^12, 10^13)), and the label is the 13 leading *)
(* digits of v with a point after the first, then e+exponent; 4^21 is      *)
(* rendered as 4.398046511104e+12.                                         *)
(***************************************************************************)
\* the exponent of the power of 4 rendered at stage k
RenderedExponent(k) ==
    IF variant = "gui" THEN text_exponent_for_this_layer(k) ELSE LsvmLabelExponent(k)

LeadingDigitsLabel(v) ==
    LET lead == SubSeq(DigitsText(v), 1, 13)
    IN  <<lead[1], ".">> \o SubSeq(lead, 2, 13) \o <<"e", "+">> \o IntText(Len(v) - 1)

WrittenBefore(j, p) == \E h \in 1..(j - 1) : calls[h].out = p /\ calls[h].outcome = "ok"

C16_Sequential ==
    \A j \in CallIndices :
        /\ (calls[j].op = "composite" /\ calls[j].stage >= 2)
              => \E h \in 1..(j - 1) :
                    /\ calls[h].out = StagePath(calls[j].stage - 1)
                    /\ calls[h].outcome = "ok"
                    /\ use_dynaudnorm => calls[h].op = "dynaudnorm"
        /\ (calls[j].op = "overlay" /\ calls[j].stage >= 1)
              => WrittenBefore(j, StagePath(calls[j].stage))
        /\ (calls[j].op = "concat" /\ loop_count >= 0)
              => WrittenBefore(j, [kind |-> "layer", k |-> loop_count])

(***************************************************************************)
(* C17 gui.py: with normalization on, k.mp4 is written only by the         *)
(* normalization pass and the raw composite goes to the temporary; with    *)
(* normalization off the raw composite is k.mp4.  The overlay of stage k   *)
(* and the compositor of stage k+1 read k.mp4, never the temporary.        *)
(***************************************************************************)
C17_CanonicalPreLabel ==
    variant = "gui"
        => /\ \A j \in CallIndices :
                 /\ calls[j].out.kind = "stage"
                       => calls[j].op = (IF use_dynaudnorm THEN "dynaudnorm" ELSE "composite")
                 /\ calls[j].op = "composite"
                       => calls[j].out.kind = (IF use_dynaudnorm THEN "tmp_dyn" ELSE "stage")
                 /\ calls[j].op = "dynaudnorm"
                       => (use_dynaudnorm /\ calls[j].in = TmpDynPath(calls[j].stage))
                 /\ (calls[j].op = "overlay" /\ calls[j].stage >= 1)
                       => calls[j].in = StagePath(calls[j].stage)
                 /\ (calls[j].op = "composite" /\ calls[j].stage >= 2)
                       => calls[j].in = StagePath(calls[j].stage - 1)
           /\ \A q \in DOMAIN files :
                 /\ q.kind = "stage" => files[q].norm = use_dynaudnorm
                 /\ (q.kind = "layer" /\ q.k >= 1) => files[q].norm = use_dynaudnorm
                 /\ q.kind = "tmp_dyn" => (use_dynaudnorm /\ ~files[q].norm)

C17_Witness ==
    /\ variant = "gui" /\ use_dynaudnorm
    /\ calls # <<>>
    /\ calls[Len(calls)].op = "composite"
    /\ calls[Len(calls)].stage = 2
    /\ calls[Len(calls)].outcome = "ok"
    /\ files[StagePath(1)].norm

(***************************************************************************)
(* C18 Both variants: within a run every pre-label artifact and every      *)
(* layer artifact is the output of at most one step, no path is written    *)
(* after a step has read it, and no step writes to the original source.    *)
(***************************************************************************)
C18_WriteOnce ==
    \A j \in CallIndices :
        /\ calls[j].out # SourcePath
        /\ \A h \in 1..(j - 1) :
              /\ calls[j].out # calls[h].in
              /\ calls[j].out.kind \in {"stage", "layer", "tmp_dyn"}
                    => calls[j].out # calls[h].out

C18_Witness ==
    /\ pc = "done" /\ loop_count = 3
    /\ variant = "lsvm"
    /\ \A j \in CallIndices : calls[j].outcome = "ok"

(***************************************************************************)
(* C20 LSVM.py: no error is swallowed: when a stage step raised the        *)
(* caught FileNotFoundError or the concatenation command failed, the run   *)
(* does not end by reporting completion.                                   *)
(***************************************************************************)
C20_LsvmNoSwallow ==
    (variant = "lsvm" /\ \E j \in CallIndices : calls[j].outcome # "ok")
        => pc # "done"

(***************************************************************************)
(* C19 Both variants, every N: provided each external call returns, the    *)
(* run eventually ends (done, returned None, or left by an exception), and *)
(* on the way no step is attempted twice: at most one overlay, composite   *)
(* and normalization per stage index and at most one concatenation.        *)
(***************************************************************************)
Terminated == pc \in {"done", "failed", "raised"}

NoRepeatedStep ==
    \A j \in CallIndices : \A h \in 1..(j - 1) :
        ~(calls[j].op = calls[h].op /\ calls[j].stage = calls[h].stage)

C19_TerminatesOnce == []NoRepeatedStep /\ <>Terminated

C19_Witness ==
    /\ Terminated
    /\ loop_count = 3
    /\ Len(calls) >= 8
    /\ \E j \in CallIndices : calls[j].op = "concat"

(***************************************************************************)
(* C11 gui.py: two runs executing concurrently share no mutable state: no  *)
(* step of a run reads, overwrites or deletes a source copy, pre-label     *)
(* artifact, layer artifact or manifest written by the other run.          *)
(***************************************************************************)
C11_NoInterference ==
    \A a \in access :
        a.path.kind \in {"input_temp", "stage", "tmp_dyn", "layer", "manifest"}
            => a.owner \in {0, a.run}

(***************************************************************************)
(* C21 Both variants: the text-overlay step of every stage k in 0..N       *)
(* passes the audio stream through unchanged, so a layer's audio is        *)
(* identical to the audio of the file the overlay step read.               *)
(***************************************************************************)
\* this step is an overlay step that succeeded
OverlayDone ==
    /\ Len(calls') = Len(calls) + 1
    /\ calls'[Len(calls')].op = "overlay"
    /\ calls'[Len(calls')].outcome = "ok"

\* the claim as stated: the audio of the layer written is the audio read
C21_AudioCopiedEveryStage ==
    [][OverlayDone =>
          LET c == calls'[Len(calls')]
          IN  files'[c.out].audio = files[c.in].audio]_vars

(***************************************************************************)
(* C21 as the code has it: the overlay step of every stage k in 1..N       *)
(* copies the audio stream, and the overlay step of layer 0 re-encodes the *)
(* audio of the source once (AAC at 44100 Hz) in both variants.            *)
(***************************************************************************)
C21_AudioCopied ==
    [][OverlayDone =>
          LET c == calls'[Len(calls')]
          IN  files'[c.out].audio =
                 IF c.stage = 0
                 THEN Append(files[c.in].audio, AudioOp("aac", <<>>))
                 ELSE files[c.in].audio]_vars

C21_Witness ==
    /\ Len(calls) >= 3
    /\ calls[Len(calls)].op = "overlay"
    /\ calls[Len(calls)].outcome = "ok"
    /\ calls[Len(calls)].stage = 2
    /\ files[LayerPath(2)].audio = files[StagePath(2)].audio
    /\ Len(files[LayerPath(2)].audio) >= 3
    /\ files[LayerPath(0)].audio = <<AudioOp("aac", <<>>)>>

(***************************************************************************)
(* C22 Both variants, every compositor invocation: the four copies start   *)
(* at 0, d, 2d, 3d with d = 0.03 s (30 ms), the audio track of each copy   *)
(* starts exactly where the copy's video track starts (the offset is not   *)
(* applied twice), and all four audio tracks carry the same single volume  *)
(* multiplier, the one of the run.                                         *)
(***************************************************************************)
\* the mixes recorded in the audio of the file at p
MixesOf(p) == {j \in 1..Len(files[p].audio) : files[p].audio[j].op = "mix"}

C22_OffsetsAndVolume ==
    \A p \in DOMAIN files :
        /\ files[p].video_starts # <<>>
              => /\ Len(files[p].video_starts) = 4
                 /\ \A n \in 1..4 : files[p].video_starts[n] = (n - 1) * 30
        /\ \A j \in MixesOf(p) :
              LET tracks == files[p].audio[j].tracks
              IN  /\ Len(tracks) = 4
                  /\ \A n \in 1..4 :
                        /\ tracks[n].start = (n - 1) * 30
                        /\ tracks[n].start = files[p].video_starts[n]
                        /\ tracks[n].gain = <<volume_multiplier>>

C22_Witness ==
    /\ StagePath(2) \in DOMAIN files
    /\ Cardinality(MixesOf(StagePath(2))) = 2
    /\ files[StagePath(2)].video_starts = <<0, 30, 60, 90>>
    /\ volume_multiplier = 25

(***************************************************************************)
(* C23 gui.py: at every point of a run the manifest list is exactly        *)
(* [layer0, ..., layerJ], J the highest stage whose overlay step has       *)
(* completed successfully; a path is appended only after its file was      *)
(* written by this run, exactly once, and no entry is ever removed or      *)
(* reordered.                                                              *)
(***************************************************************************)
\* stages whose overlay step has completed successfully
OverlaidStages ==
    {calls[j].stage : j \in {h \in CallIndices : calls[h].op = "overlay" /\ calls[h].outcome = "ok"}}

ManifestListIsLayers ==
    variant = "gui" =>
        /\ OverlaidStages = 0..(Len(output_layer_files_for_concat) - 1)
        /\ \A n \in 1..Len(output_layer_files_for_concat) :
              /\ output_layer_files_for_concat[n] = LayerPath(n - 1)
              /\ LayerPath(n - 1) \in DOMAIN files
              /\ WrittenBefore(Len(calls) + 1, LayerPath(n - 1))

ManifestListGrows ==
    /\ Len(output_layer_files_for_concat') >= Len(output_layer_files_for_concat)
    /\ \A n \in 1..Len(output_layer_files_for_concat) :
          output_layer_files_for_concat'[n] = output_layer_files_for_concat[n]

C23_ManifestList == []ManifestListIsLayers /\ [][ManifestListGrows]_vars

C23_Witness ==
    /\ variant = "gui"
    /\ pc = "overlay"
    /\ output_layer_files_for_concat = <<LayerPath(0), LayerPath(1), LayerPath(2)>>

(***************************************************************************)
(* C24 gui.py, runs made one after another in the same working             *)
(* directories: no step of a run reads an artifact left behind by an       *)
(* earlier run; every source copy, pre-label artifact, layer artifact and  *)
(* manifest (with the files it lists) that a step reads was written        *)
(* earlier in the same run.                                                *)
(***************************************************************************)
C24_NoStaleRead ==
    \A a \in access :
        (a.mode = "read" /\ a.path.kind \in {"input_temp", "stage", "tmp_dyn", "layer", "manifest"})
            => a.owner = a.run

\* the second run reads a stage artifact while files of the first run,
\* which made more stages, are still in the directory
C24_Witness ==
    /\ RunReturned(1)
    /\ runs[1].loop_count > runs[2].loop_count
    /\ LayerPath(runs[1].loop_count) \in DOMAIN writer
    /\ writer[LayerPath(runs[1].loop_count)] = 1
    /\ \E a \in access : a.run = 2 /\ a.mode = "read" /\ a.path.kind = "layer"

(***************************************************************************)
(* C25 gui.py: after a successful run the manifest file and the source     *)
(* copy in input_temp are gone and no k_tmp_dyn temporary remains, while   *)
(* every pre-label artifact 1..N and every layer artifact 0..N is still in *)
(* place; after a failed run nothing is cleaned up: the source copy (once  *)
(* made), the manifest (once written) and the temporary of a stage whose   *)
(* normalization failed remain, as do the artifacts written so far.        *)
(***************************************************************************)
\* the step with index j of the log succeeded and wrote the file at p
Wrote(j, p) == calls[j].out = p /\ calls[j].outcome = "ok"

====
